---- MODULE Spec2Model ----
(***************************************************************************)
(* Model of the sensor node firmware of data_sensor_collector:             *)
(*   - the wireless delivery sink  (src/board/utils/ble_sender.py)         *)
(*   - the acquisition scheduler   (src/master.py)                         *)
(* The main thread (record_data, and send_data which it calls) runs to     *)
(* completion between its own steps; link-layer interrupts (bt_irq) are    *)
(* scheduled between the steps of the main thread.                         *)
(***************************************************************************)
EXTENDS Integers, Sequences, FiniteSets, TLC

VARIABLES
    \* ---- BLEPeripheral (ble_sender.py) ----
    buffer,         \* self.buffer: the RetryBuffer
    conn_handle,    \* self.conn_handle: None or <<handle>>
    radio_active,   \* state of self.ble.active(...)
    advertising,    \* whether gap_advertise is in effect
    pc,             \* position of the main thread inside send_data
    i,              \* loop variable of the frame loop of send_data
    data,           \* the argument of the running / last send_data call
    frames,         \* frames notified by the running / last send_data call
    prev,           \* self.buffer on entry of the running / last send_data call
    out,            \* which message the last send_data call printed on leaving
    last_step,      \* the operation that made the latest step
    delivered,      \* Readings notified in some frame so far
    nextId,         \* the harness: id of the next fresh Reading
    \* ---- record_data (master.py) ----
    spc,            \* position of the main thread inside record_data
    current_time,   \* current_time of the running tick
    last,           \* channel_maps[c]["last"]
    last_write_time,
    data_buffer,    \* the live Batch
    idx,            \* position of the for loop over channel_maps
    ticks,          \* number of ticks begun
    visits,         \* the visits of the running tick: <<[ch, outcome]>>
    checked,        \* the latest due-check: [ch, elapsed, visited]
    mux,            \* Multiplexer: the enable pin and the control pins
    \* ---- SDCardLogger (sd_manager.py) ----
    log_file,       \* the log file: whether it exists, and its lines
    sd_data_buffer, \* self.data_buffer: the list objects log_data was handed
    log_handed,     \* the batches handed to log_data, one per call
    log_out,        \* how each log_data call went, one per call
    \* ---- Multiplexer called on its own (mux.py) ----
    mux_arg,        \* the argument of the latest select_channel call
    mux_result,     \* how the latest select_channel call ended
    sel_pc,         \* select_channel run step by step: 0 when not running,
                    \* else the control pin written next (5: all written)
    pin_writes,     \* the pin writes of that call, with the enable level
                    \* at the time of each write
    \* ---- GravitySensor called on its own (sensors.py) ----
    g_key,          \* self._key
    g_count,        \* self._count
    g_oxygendata,   \* self._oxygendata
    g_init_success, \* self._init_success
    g_built,        \* how the construction of the sensor went
    g_samples,      \* the calibrated samples taken so far, latest first
    g_i2c,          \* number of I2C transactions issued so far
    g_calls,        \* number of calls made so far
    g_cn,           \* collect_num of the latest get_oxygen_data call
    g_status,       \* how the latest call ended
    g_ret,          \* what the latest get_oxygen_data call returned
    \* ---- SCD40Sensor called on its own (sensors.py) ----
    scd_frame,      \* the 9 bytes the latest read_sensor call received
    scd_status,     \* how the latest read_sensor call went on the bus
    scd_ret,        \* what the latest read_sensor call returned
    crc_pc,         \* crc8 harness: "none", "picked" or "flipped"
    crc_word,       \* the 2-byte word handed to crc8
    crc_bit,        \* the bit of the word that was flipped
    crc_of_word,    \* crc8 of the word
    crc_of_flipped  \* crc8 of the word with that bit flipped

bleVars == <<buffer, conn_handle, radio_active, advertising, pc, i, data,
             frames, prev, out, delivered>>
logVars == <<log_file, sd_data_buffer, log_handed, log_out>>
schedVars == <<spc, current_time, last, last_write_time, data_buffer, idx,
               ticks, visits, checked, mux, log_file, sd_data_buffer,
               log_handed, log_out>>
pinVars == <<sel_pc, pin_writes>>
muxCallVars == <<mux_arg, mux_result, sel_pc, pin_writes>>
gravVars == <<g_key, g_count, g_oxygendata, g_init_success, g_built, g_samples, g_i2c,
              g_calls, g_cn, g_status, g_ret>>
scdVars == <<scd_frame, scd_status, scd_ret, crc_pc, crc_word, crc_bit,
             crc_of_word, crc_of_flipped>>
unitVars == <<muxCallVars, gravVars, scdVars>>
vars == <<buffer, conn_handle, radio_active, advertising, pc, i, data,
          frames, prev, out, last_step, delivered, nextId,
          spc, current_time, last, last_write_time, data_buffer, idx,
          ticks, visits, checked, mux, log_file, sd_data_buffer,
          log_handed, log_out, mux_arg, mux_result, sel_pc, pin_writes,
          g_key, g_count, g_oxygendata, g_init_success, g_built, g_samples,
          g_i2c, g_calls, g_cn, g_status, g_ret,
          scd_frame, scd_status, scd_ret, crc_pc, crc_word, crc_bit,
          crc_of_word, crc_of_flipped>>

----------------------------------------------------------------------------
\* Bounds of the model
MaxReadings == 5        \* fresh Readings the harness hands to send_data
MaxBatch == 3           \* largest batch the harness hands to one send_data call
MaxHandle == 1          \* connection handles the link layer may report
MaxTicks == 2           \* ticks of record_data
NumChannels == 2        \* channels of channel_maps that are modelled

----------------------------------------------------------------------------
\* Helpers
Min(a, b) == IF a <= b THEN a ELSE b

Range(s) == {s[k] : k \in DOMAIN s}

RECURSIVE Flatten(_)
Flatten(fs) == IF fs = <<>> THEN <<>> ELSE Head(fs) \o Flatten(Tail(fs))

CeilDiv(n, d) == (n + d - 1) \div d

----------------------------------------------------------------------------
\* BLEPeripheral

None == <<>>

Handles == 1..MaxHandle

BATCH_SIZE == 2

\* for d in data: self.buffer.append(d)
AppendAll(buf, d) == buf \o d

\* the except branch: for d in data: self.buffer.append(d)
RebufferClears(buf, d, k) == <<>>
Rebuffer(buf, d, k) == buf \o d

\* batch = all_data[i:i + BATCH_SIZE]
FrameAtWhole(all_data, k) == SubSeq(all_data, k + 1, Len(all_data))
FrameAt(all_data, k) ==
    SubSeq(all_data, k + 1, Min(k + BATCH_SIZE, Len(all_data)))

\* range(0, len(all_data), BATCH_SIZE) has a next element
FrameLeft(all_data, k) == k < Len(all_data)

\* gatts_write / gatts_notify can complete: the radio is active and the
\* handle passed to gatts_notify is an integer
CanNotifyStale == radio_active
CanNotify == radio_active /\ conn_handle # None

\* bt_irq: the value of self.conn_handle after the event
bt_irq(event, h, cur) ==
    IF event = 1 THEN <<h>>
    ELSE IF event = 2 THEN None
    ELSE cur

\* shutdown_ble: self.ble.active(False); self.conn_handle is not assigned
ShutdownResetsHandle(h) == None
ShutdownConn(h) == h

\* the failure path never calls shutdown_ble
FailureShutsDown(r) == FALSE
FailureRadio(r) == r

\* the Disconnected path: enable_ble() -> self.ble.active(True)
EnableLeavesOff(r) == r
EnableRadio(r) == TRUE

\* if self.conn_handle is None
TakesDisconnectedPath(h) == h = None

\* send_data(d), up to the first frame
SendEnter(d) ==
    /\ pc = "idle"
    /\ data' = d
    /\ prev' = buffer
    /\ frames' = <<>>
    /\ buffer' = AppendAll(buffer, d)
    /\ IF TakesDisconnectedPath(conn_handle)
       THEN \* enable_ble() and return
            /\ radio_active' = EnableRadio(radio_active)
            /\ conn_handle' = None
            /\ advertising' = EnableRadio(radio_active)
            /\ out' = "buffered"
            /\ pc' = "idle"
            /\ i' = i
       ELSE /\ pc' = "loop"
            /\ i' = 0
            /\ out' = "sending"
            /\ UNCHANGED <<radio_active, conn_handle, advertising>>
    /\ last_step' = "send_enter"
    /\ UNCHANGED delivered

\* one iteration of the frame loop: gatts_write + gatts_notify complete
SendFrame ==
    /\ pc = "loop"
    /\ FrameLeft(buffer, i)
    /\ CanNotify
    /\ frames' = Append(frames, FrameAt(buffer, i))
    /\ delivered' = delivered \cup Range(FrameAt(buffer, i))
    /\ i' = i + BATCH_SIZE
    /\ last_step' = "frame"
    /\ UNCHANGED <<buffer, conn_handle, radio_active, advertising, pc, data,
                   prev, out, nextId>>
    /\ UNCHANGED schedVars
    /\ UNCHANGED unitVars

\* the except branch of send_data
Raise(step) ==
    /\ pc = "loop"
    /\ FrameLeft(buffer, i)
    /\ buffer' = Rebuffer(buffer, data, i)
    /\ radio_active' = FailureRadio(radio_active)
    /\ advertising' = (advertising /\ FailureRadio(radio_active))
    /\ out' = "error"
    /\ pc' = "idle"
    /\ last_step' = step
    /\ UNCHANGED <<conn_handle, i, data, frames, prev, delivered, nextId>>
    /\ UNCHANGED schedVars
    /\ UNCHANGED unitVars

\* a frame raises because the radio is off or conn_handle is None
FrameRaiseStack == ~CanNotify /\ Raise("raise_stack")

\* a frame raises although a peer is attached (the link failed)
FrameRaiseLink == CanNotify /\ Raise("raise_link")

\* the loop ended: self.buffer.clear(); self.shutdown_ble()
SendFinish ==
    /\ pc = "loop"
    /\ ~FrameLeft(buffer, i)
    /\ buffer' = <<>>
    /\ radio_active' = FALSE
    /\ advertising' = FALSE
    /\ conn_handle' = ShutdownConn(conn_handle)
    /\ out' = "sent"
    /\ pc' = "idle"
    /\ last_step' = "finish"
    /\ UNCHANGED <<i, data, frames, prev, delivered, nextId>>
    /\ UNCHANGED schedVars
    /\ UNCHANGED unitVars

\* link layer: a central attaches (only an advertising radio can be found)
IrqConnect ==
    /\ radio_active /\ advertising /\ conn_handle = None
    /\ \E h \in Handles : conn_handle' = bt_irq(1, h, conn_handle)
    /\ advertising' = FALSE
    /\ last_step' = "irq_connect"
    /\ UNCHANGED <<buffer, radio_active, pc, i, data, frames, prev, out,
                   delivered, nextId>>
    /\ UNCHANGED schedVars
    /\ UNCHANGED unitVars

\* link layer: the central is gone (delivered at any later moment, also
\* after the radio was switched off, or never)
IrqDisconnect ==
    /\ conn_handle # None
    /\ conn_handle' = bt_irq(2, 0, conn_handle)
    /\ last_step' = "irq_disconnect"
    /\ UNCHANGED <<buffer, radio_active, advertising, pc, i, data, frames,
                   prev, out, delivered, nextId>>
    /\ UNCHANGED schedVars
    /\ UNCHANGED unitVars

\* the harness: send_data is called with a batch of fresh Readings
FreshBatch(k) == [j \in 1..k |-> nextId + j - 1]

SendCall ==
    /\ spc = "harness"
    /\ \E k \in 0..MaxBatch :
          /\ nextId + k - 1 <= MaxReadings
          /\ SendEnter(FreshBatch(k))
          /\ nextId' = nextId + k
    /\ UNCHANGED schedVars
    /\ UNCHANGED unitVars

----------------------------------------------------------------------------
\* record_data

\* time.ticks_ms() wraps at TICKS_PERIOD; time.ticks_diff is the signed
\* difference modulo TICKS_PERIOD
TICKS_PERIOD == 1073741824

ticks_add(t, d) == (t + d) % TICKS_PERIOD

ticks_diff(a, b) ==
    ((a - b + TICKS_PERIOD \div 2) % TICKS_PERIOD) - TICKS_PERIOD \div 2

sampling_timer == 30000

FLUSH_PERIOD == 60000

Channels == 0..(NumChannels - 1)

\* channel_maps: even channels carry a GravitySensor read every 15000 ms,
\* odd channels an SCD40Sensor read every 5000 ms
channel_maps(c) ==
    IF c % 2 = 0
    THEN [sensor_type |-> "GravitySensor", interval |-> 15000]
    ELSE [sensor_type |-> "SCD40Sensor", interval |-> 5000]

\* what ticks_ms() may have advanced by when the next tick begins
Deltas == {4999, 5000, 30000}

\* the value of ticks_ms() when the module is loaded
StartTimes == {0, TICKS_PERIOD - 5000}

\* if elapsed >= sampling_timer
Due(elapsed, info) == elapsed >= sampling_timer

\* info["last"] = current_time, assigned before the sensor is read
LastOnlyOnSuccess(old, now, outcome) == IF outcome = "ok" THEN now ELSE old
LastAfterVisit(old, now, outcome) == now

\* what sensor.read_sensor() can do:
\*   SCD40Sensor.read_sensor catches every exception and returns Nones;
\*   GravitySensor.read_sensor returns -1.0 when the probe failed, and lets
\*   the OSError of read_reg through when the probe succeeded
Outcomes(sensor_type) ==
    IF sensor_type = "SCD40Sensor" THEN {"ok", "fail"}
    ELSE {"ok", "fail", "raise"}

sensor_label(sensor_type) ==
    IF sensor_type = "SCD40Sensor" THEN "CO2" ELSE "O2"

\* the dictionary appended to data_buffer
Reading(now, c, outcome) ==
    [timestamp |-> now, channel |-> c,
     sensor_type |-> sensor_label(channel_maps(c).sensor_type),
     data |-> outcome]

\* "{:04b}".format(channel), one bit per control pin
Bits(c) == <<(c \div 8) % 2, (c \div 4) % 2, (c \div 2) % 2, c % 2>>

select_channel_first(c) == [en |-> 0, pins |-> Bits(0)]

\* Multiplexer.select_channel for a channel in 0..15
select_channel(c) == [en |-> 0, pins |-> Bits(c)]

----------------------------------------------------------------------------
\* SDCardLogger

\* a line of the file is a record; the header line has its text only
HEADER == [text |-> "timestamp,channel_id,sensor_type,data"]

device_name == "ESP32-SensorData-1"

NoFile == [exists |-> FALSE, lines |-> <<>>]

\* the line log_data writes for one entry; self.timer is timer / 1000 and
\* entry["timestamp"] is current_time / 1000, so the first field is
\* int(current_time / timer); a Reading keeps current_time itself
LineOf(entry) ==
    [timestamp_str |-> entry.timestamp \div sampling_timer,
     device |-> device_name,
     channel |-> entry.channel,
     sensor_type |-> entry.sensor_type,
     data_str |-> entry.data]

LinesOf(batch) == [j \in DOMAIN batch |-> LineOf(batch[j])]

\* how a log_data call can go:
\*   ok            every statement completes
\*   mount_fail    os.statvfs("/sd") raises
\*   prepare_fail  os.listdir fails in _prepare_log_file (caught there), the
\*                 append goes on
\*   header_fail   the write of the header fails after open(..., 'w') (caught
\*                 in _prepare_log_file), the append goes on
\*   write_fail    open(..., 'a') or the write of line k + 1 raises (taken
\*                 at the first and at the last line of the batch)
LogOutcomes(batch) ==
    {[kind |-> "ok", k |-> Len(batch)],
     [kind |-> "mount_fail", k |-> 0],
     [kind |-> "prepare_fail", k |-> Len(batch)],
     [kind |-> "header_fail", k |-> Len(batch)]}
    \cup {[kind |-> "write_fail", k |-> k] :
             k \in {0, Len(batch) - 1} \cap (0..(Len(batch) - 1))}

\* _prepare_log_file: a file that is not listed is created with the header
PreparedAlwaysWrites(file, o) == [exists |-> TRUE, lines |-> <<HEADER>>]
Prepared(file, o) ==
    IF o.kind = "prepare_fail" \/ file.exists THEN file
    ELSE IF o.kind = "header_fail" THEN [exists |-> TRUE, lines |-> <<>>]
    ELSE [exists |-> TRUE, lines |-> <<HEADER>>]

\* log_data: the file after the call
log_data(file, batch, o) ==
    IF o.kind = "mount_fail" THEN file
    ELSE LET p == Prepared(file, o) IN
         IF o.kind = "write_fail" /\ o.k = 0 THEN p
         ELSE [exists |-> TRUE,
               lines |-> p.lines \o SubSeq(LinesOf(batch), 1, o.k)]

\* log_data wraps everything after line 113 in try / except Exception
LogReturnsOnlyIfOk(o) == o.kind = "ok"
LogReturns(o) == TRUE

\* self.data_buffer.append(data_buffer): the list object itself is kept, and
\* the caller's only list object is the live Batch
LiveList == "data_buffer"

\* log_data(data_buffer) as a step
LogCalled(batch, o) ==
    /\ sd_data_buffer' = Append(sd_data_buffer, LiveList)
    /\ log_handed' = Append(log_handed, batch)
    /\ log_out' = Append(log_out, o.kind)
    /\ log_file' = log_data(log_file, batch, o)

\* what the entries of self.data_buffer show when read
SdHeld == [k \in DOMAIN sd_data_buffer |-> data_buffer]

\* data_buffer.clear()
NotCleared(b) == b
Cleared(b) == <<>>

InitLog ==
    /\ log_file = NoFile
    /\ sd_data_buffer = <<>>
    /\ log_handed = <<>>
    /\ log_out = <<>>

\* current_time = time.ticks_ms()
TickBegin ==
    /\ spc = "tick"
    /\ ticks < MaxTicks
    /\ \E d \in Deltas : current_time' = ticks_add(current_time, d)
    /\ ticks' = ticks + 1
    /\ idx' = 0
    /\ visits' = <<>>
    /\ spc' = "chan"
    /\ last_step' = "tick"
    /\ UNCHANGED <<last, last_write_time, data_buffer, checked, mux>>
    /\ UNCHANGED logVars
    /\ UNCHANGED bleVars
    /\ UNCHANGED nextId
    /\ UNCHANGED unitVars

\* one iteration of: for channel, info in channel_maps.items()
ChannelStep ==
    /\ spc = "chan"
    /\ idx < NumChannels
    /\ LET c == idx
           info == channel_maps(c)
           elapsed == ticks_diff(current_time, last[c])
       IN
       IF Due(elapsed, info)
       THEN \E o \in Outcomes(info.sensor_type) :
               /\ mux' = select_channel(c)
               /\ last' = [last EXCEPT ![c] = LastAfterVisit(last[c], current_time, o)]
               /\ visits' = Append(visits, [ch |-> c, outcome |-> o, elapsed |-> elapsed])
               /\ checked' = [ch |-> c, elapsed |-> elapsed, visited |-> TRUE,
                              now |-> current_time, before |-> last[c]]
               /\ IF o = "raise"
                  THEN spc' = "crashed" /\ UNCHANGED <<data_buffer, idx>>
                  ELSE /\ data_buffer' = Append(data_buffer, Reading(current_time, c, o))
                       /\ idx' = idx + 1
                       /\ spc' = spc
       ELSE /\ checked' = [ch |-> c, elapsed |-> elapsed, visited |-> FALSE,
                            now |-> current_time, before |-> last[c]]
            /\ idx' = idx + 1
            /\ UNCHANGED <<mux, last, visits, data_buffer, spc>>
    /\ last_step' = "channel"
    /\ UNCHANGED <<current_time, last_write_time, ticks>>
    /\ UNCHANGED logVars
    /\ UNCHANGED bleVars
    /\ UNCHANGED nextId
    /\ UNCHANGED unitVars

\* if time.ticks_diff(current_time, last_write_time) >= 60000
FlushDue == ticks_diff(current_time, last_write_time) >= FLUSH_PERIOD

\* the for loop ended and no flush is due: time.sleep_ms(50)
NoFlush ==
    /\ spc = "chan"
    /\ idx = NumChannels
    /\ ~FlushDue
    /\ spc' = "tick"
    /\ last_step' = "sleep"
    /\ UNCHANGED <<current_time, last, last_write_time, data_buffer, idx,
                   ticks, visits, checked, mux>>
    /\ UNCHANGED logVars
    /\ UNCHANGED bleVars
    /\ UNCHANGED nextId
    /\ UNCHANGED unitVars

\* a flush is due: sd_logger.log_data(data_buffer), whose failures are caught
\* inside it, then ble_peripheral.send_data(data_buffer) is entered
FlushStart ==
    /\ spc = "chan"
    /\ idx = NumChannels
    /\ FlushDue
    /\ \E o \in LogOutcomes(data_buffer) :
          /\ LogCalled(data_buffer, o)
          /\ IF LogReturns(o)
             THEN SendEnter(data_buffer) /\ spc' = "flushing"
             ELSE /\ spc' = "crashed"
                  /\ last_step' = "log_raise"
                  /\ UNCHANGED bleVars
    /\ UNCHANGED <<current_time, last, last_write_time, data_buffer, idx,
                   ticks, visits, checked, mux>>
    /\ UNCHANGED nextId
    /\ UNCHANGED unitVars

\* send_data returned: data_buffer.clear(); last_write_time = current_time
FlushReturn ==
    /\ spc = "flushing"
    /\ pc = "idle"
    /\ data_buffer' = Cleared(data_buffer)
    /\ last_write_time' = current_time
    /\ spc' = "tick"
    /\ last_step' = "flush_return"
    /\ UNCHANGED <<current_time, last, idx, ticks, visits, checked, mux>>
    /\ UNCHANGED logVars
    /\ UNCHANGED bleVars
    /\ UNCHANGED nextId
    /\ UNCHANGED unitVars

----------------------------------------------------------------------------
InitBle ==
    /\ buffer = <<>>
    /\ conn_handle = None
    /\ radio_active = TRUE
    /\ advertising = TRUE
    /\ pc = "idle"
    /\ i = 0
    /\ data = <<>>
    /\ frames = <<>>
    /\ prev = <<>>
    /\ out = "none"
    /\ last_step = "init"
    /\ delivered = {}
    /\ nextId = 1

NoCheck == [ch |-> -1, elapsed |-> 0, visited |-> FALSE, now |-> 0, before |-> 0]

\* Multiplexer.__init__: self.en.value(0), then self.disable()
InitMux == mux = [en |-> 1, pins |-> <<0, 0, 0, 0>>]

----------------------------------------------------------------------------
\* GravitySensor

MAX_BUFFER_SIZE == 101

\* the floats of the driver are kept as exact fractions: a key k stands for
\* k / KeyScale, a calibrated sample v for v / (KeyScale * 100)
KeyScale == 12000

\* 20.9 / 120.0
DEFAULT_KEY == 2090

\* get_flash: 20.9 / 120.0 if value == 0 else float(value) / 1000.0
KeyOf(value) == IF value = 0 THEN DEFAULT_KEY ELSE 12 * value

\* result[0] + result[1] / 10.0 + result[2] / 100.0, in hundredths
RawOf(result) == 100 * result[1] + 10 * result[2] + result[3]

\* val = self._key * (...)
ValOf(key, result) == key * RawOf(result)

\* for i in range(collect_num - 1, 0, -1): data[i] = data[i - 1]
Shifted(d, collect_num) ==
    [j \in DOMAIN d |-> IF 2 <= j /\ j <= collect_num THEN d[j - 1] ELSE d[j]]

RECURSIVE SumFirst(_, _)
SumFirst(d, n) == IF n = 0 THEN 0 ELSE d[n] + SumFirst(d, n - 1)

\* sum(array[:length]) / float(length), kept as the pair (sum, length)
average(array, length) == [sum |-> SumFirst(array, length), n |-> length]

\* the return value -1.0
MinusOne == [sum |-> 0 - KeyScale * 100, n |-> 1]

SameValue(a, b) == a.sum * b.n = b.sum * a.n

\* [0.0] * MAX_BUFFER_SIZE
EmptyHistory == [j \in 1..MAX_BUFFER_SIZE |-> 0]

\* round(x, 2): the nearest multiple of 1 / 100
Round2(x) ==
    LET d == x.n * KeyScale
    IN [sum |-> ((2 * x.sum + d) \div (2 * d)) * KeyScale, n |-> 1]

\* _try_initialize returns True when neither read_reg nor get_flash raised
InitSuccessAlways(o) == TRUE
InitSuccess(o) == o = "ok"

\* if collect_num <= 0 or collect_num > MAX_BUFFER_SIZE: return -1.0
ValidCollectNoUpper(collect_num) == collect_num > 0
ValidCollect(collect_num) == collect_num > 0 /\ collect_num <= MAX_BUFFER_SIZE

----------------------------------------------------------------------------
\* SCD40Sensor

\* a ^ b on n-bit values
RECURSIVE Xor(_, _, _)
Xor(a, b, n) ==
    IF n = 0 THEN 0
    ELSE ((a + b) % 2) + 2 * Xor(a \div 2, b \div 2, n - 1)

\* one round of the inner loop of crc8:
\* if crc & 0x80: crc = (crc << 1) ^ 0x31 else: crc <<= 1; crc &= 0xFF
CrcShiftNoPoly(crc) == (crc * 2) % 256
CrcShift(crc) ==
    IF (crc \div 128) % 2 = 1
    THEN Xor(crc * 2, 49, 9) % 256
    ELSE (crc * 2) % 256

\* for _ in range(8)
RECURSIVE CrcRounds(_, _)
CrcRounds(crc, n) == IF n = 0 THEN crc ELSE CrcRounds(CrcShift(crc), n - 1)

\* the eight rounds, for each value crc can have when they start
CrcByte == [crc \in 0..255 |-> CrcRounds(crc, 8)]

\* for byte in data: crc ^= byte; the eight rounds
RECURSIVE CrcFold(_, _)
CrcFold(crc, bytes) ==
    IF bytes = <<>> THEN crc
    ELSE CrcFold(CrcByte[Xor(crc, Head(bytes), 8)], Tail(bytes))

\* crc = 0xFF ... return crc
crc8(bytes) == CrcFold(255, bytes)

\* a result field: None, or a value
NoneField == <<>>
Some(v) == <<v>>

NoneTriple == [co2 |-> NoneField, temp |-> NoneField, humidity |-> NoneField]

\* parse_word: if self.crc8(raw) != crc_received: raise ValueError
CrcMatchesAlways(raw, crc_received) == TRUE
CrcMatches(raw, crc_received) == crc8(raw) = crc_received

\* parse_word(start_index), start_index counted from 0
parse_word(frame, start_index) ==
    LET raw == SubSeq(frame, start_index + 1, start_index + 2)
        crc_received == frame[start_index + 3]
    IN [ok |-> CrcMatches(raw, crc_received), value |-> raw[1] * 256 + raw[2]]

\* round(x, 2) of a quotient num / den with den > 0, in hundredths
RoundHundredths(num, den) == (2 * 100 * num + den) \div (2 * den)

\* temp = -45 + 175 * (temp_raw / 65535), rounded to hundredths
TempOf(temp_raw) == RoundHundredths(175 * temp_raw - 45 * 65535, 65535)

\* humidity = 100 * (rh_raw / 65535), rounded to hundredths
HumidityOf(rh_raw) == RoundHundredths(100 * rh_raw, 65535)

\* what read_sensor returns for the 9 bytes it received
Decoded(frame) ==
    LET co2 == parse_word(frame, 0)
        temp_raw == parse_word(frame, 3)
        rh_raw == parse_word(frame, 6)
    IN IF ~co2.ok THEN NoneTriple
       ELSE IF ~temp_raw.ok THEN NoneTriple
       ELSE IF ~rh_raw.ok THEN NoneTriple
       ELSE [co2 |-> Some(co2.value),
             temp |-> Some(TempOf(temp_raw.value)),
             humidity |-> Some(HumidityOf(rh_raw.value))]

\* nothing has been called on its own yet; the GravitySensor has been
\* constructed with a probe that succeeded and a flash value of 0
InitUnits ==
    /\ mux_arg = 0
    /\ mux_result = "none"
    /\ sel_pc = 0
    /\ pin_writes = <<>>
    /\ g_key = DEFAULT_KEY
    /\ g_count = 0
    /\ g_oxygendata = EmptyHistory
    /\ g_init_success = TRUE
    /\ g_built = "ok"
    /\ g_samples = <<>>
    /\ g_i2c = 0
    /\ g_calls = 0
    /\ g_cn = 0
    /\ g_status = "constructed"
    /\ g_ret = MinusOne
    /\ scd_frame = <<>>
    /\ scd_status = "none"
    /\ scd_ret = NoneTriple
    /\ crc_pc = "none"
    /\ crc_word = <<0, 0>>
    /\ crc_bit = 0
    /\ crc_of_word = 0
    /\ crc_of_flipped = 0

InitSchedAt(t0, where) ==
    /\ spc = where
    /\ current_time = t0
    /\ last = [c \in Channels |-> t0]
    /\ last_write_time = t0
    /\ data_buffer = <<>>
    /\ idx = 0
    /\ ticks = 0
    /\ visits = <<>>
    /\ checked = NoCheck
    /\ InitMux
    /\ InitLog
    /\ InitUnits

\* the sink alone: send_data is called by the harness
Init == InitBle /\ InitSchedAt(0, "harness")

Next ==
    \/ SendCall
    \/ SendFrame
    \/ FrameRaiseStack
    \/ FrameRaiseLink
    \/ SendFinish
    \/ IrqConnect
    \/ IrqDisconnect

Spec == Init /\ [][Next]_vars

\* the main thread: record_data keeps flushing, and send_data it calls runs on
MainStep ==
    \/ SendCall
    \/ SendFrame
    \/ FrameRaiseStack
    \/ FrameRaiseLink
    \/ SendFinish

LiveSpec == Init /\ [][Next]_vars /\ WF_vars(MainStep)

\* the whole node: record_data runs its ticks and flushes into send_data
SchedInit == InitBle /\ \E t0 \in StartTimes : InitSchedAt(t0, "tick")

SchedNext ==
    \/ TickBegin
    \/ ChannelStep
    \/ NoFlush
    \/ FlushStart
    \/ SendFrame
    \/ FrameRaiseStack
    \/ FrameRaiseLink
    \/ SendFinish
    \/ FlushReturn
    \/ IrqConnect
    \/ IrqDisconnect

SchedSpec == SchedInit /\ [][SchedNext]_vars

----------------------------------------------------------------------------
\* SDCardLogger on its own: log_data is called with arbitrary batches on a
\* card that holds no log file yet

MaxLogCalls == 2
MaxLogBatch == 2

SeqsUpTo(S, n) == UNION {[1..k -> S] : k \in 0..n}

SampleReadings == {Reading(0, 0, "ok"), Reading(sampling_timer, 1, "fail")}

LogBatches == SeqsUpTo(SampleReadings, MaxLogBatch)

LogCall ==
    /\ spc = "log_harness"
    /\ Len(log_out) < MaxLogCalls
    /\ \E b \in LogBatches : \E o \in LogOutcomes(b) : LogCalled(b, o)
    /\ last_step' = "log_call"
    /\ UNCHANGED <<spc, current_time, last, last_write_time, data_buffer, idx,
                   ticks, visits, checked, mux>>
    /\ UNCHANGED bleVars
    /\ UNCHANGED nextId
    /\ UNCHANGED unitVars

LogInit == InitBle /\ InitSchedAt(0, "log_harness")

LogNext == LogCall

LogSpec == LogInit /\ [][LogNext]_vars

----------------------------------------------------------------------------
\* Properties of the wireless delivery sink

IsPrefix(a, b) == Len(a) <= Len(b) /\ SubSeq(b, 1, Len(a)) = a

\* C1: a Reading leaves the RetryBuffer only in the step that ends a
\* send_data call all of whose frames were notified; every other step
\* (Disconnected path, failure path, connect / disconnect events) keeps the
\* whole buffer as a prefix of the new buffer.
C1_RemovedOnlyByFullSend ==
    [][ ~IsPrefix(buffer, buffer')
          => /\ last_step' = "finish"
             /\ out' = "sent"
             /\ Flatten(frames') = buffer ]_vars

C1_Witness ==
    /\ last_step = "finish"
    /\ prev # <<>>
    /\ data # <<>>
    /\ buffer = <<>>
    /\ Len(frames) >= 2

\* C2: at-least-once wireless delivery: if a peer attaches whenever the sink
\* lets it, and from some moment on the link neither drops nor fails a
\* frame, then every Reading handed to send_data is eventually notified in
\* some frame.
C2_AtLeastOnce ==
    (WF_vars(IrqConnect) /\ <>[][~FrameRaiseLink /\ ~IrqDisconnect]_vars)
        => \A r \in 1..MaxReadings : (r < nextId) ~> (r \in delivered)

\* C3: send_data called while Disconnected appends the whole batch after the
\* buffered Readings, leaves the radio enabled and advertising with state
\* Disconnected, and notifies no frame.
C3_DisconnectedSendBuffers ==
    [][ (pc = "idle" /\ conn_handle = None /\ last_step' = "send_enter")
          => /\ buffer' = buffer \o data'
             /\ radio_active'
             /\ advertising'
             /\ conn_handle' = None
             /\ frames' = <<>>
             /\ delivered' = delivered
             /\ pc' = "idle" ]_vars

C3_Witness ==
    /\ last_step = "send_enter"
    /\ out = "buffered"
    /\ prev # <<>>
    /\ data # <<>>
    /\ buffer = prev \o data

\* C4: a send_data call that ends without a raise has notified
\* B = (buffer on entry) \o (incoming batch) as ceil(len(B)/2) frames of 1 or 2
\* Readings whose concatenation is B; 5 Readings go out as 2, 2, 1.
C4_FramesPartitionBuffer ==
    last_step = "finish"
      => LET B == prev \o data IN
         /\ Len(frames) = CeilDiv(Len(B), 2)
         /\ \A k \in DOMAIN frames : Len(frames[k]) \in 1..2
         /\ Flatten(frames) = B
         /\ (Len(B) = 5 => [k \in 1..3 |-> Len(frames[k])] = <<2, 2, 1>>)

C4_Witness ==
    /\ last_step = "finish"
    /\ prev # <<>>
    /\ data # <<>>
    /\ Len(prev \o data) = 5
    /\ Len(frames) = 3

\* C5: with 5 Readings to transmit, when the 2nd frame raises the buffer holds
\* exactly the 3 Readings of frames 2 and 3, and the radio is still enabled.
C5_OnlyUnsentRebuffered ==
    (/\ last_step \in {"raise_stack", "raise_link"}
     /\ Len(prev \o data) = 5
     /\ Len(frames) = 1)
      => /\ buffer = SubSeq(prev \o data, 3, 5)
         /\ radio_active

\* C6: the radio goes from enabled to disabled only in the step that ends a
\* send_data call all of whose frames were notified, and the buffer is empty
\* then.
C6_ShutdownOnlyAfterFullSend ==
    [][ (radio_active /\ ~radio_active')
          => /\ last_step' = "finish"
             /\ out' = "sent"
             /\ buffer' = <<>>
             /\ Flatten(frames') = prev' \o data' ]_vars

C6_Witness ==
    /\ last_step = "finish"
    /\ ~radio_active
    /\ buffer = <<>>
    /\ Len(frames) >= 2

\* C7: once a disconnect event has been delivered inside the frame loop with
\* frames still to go, no further frame is notified in that call: the next
\* step of the call is the failure path, which ends the call and keeps every
\* Reading of the buffer.
C7_DisconnectMidSendStops ==
    [][ (pc = "loop" /\ conn_handle = None /\ i < Len(buffer))
          => /\ frames' = frames
             /\ delivered' = delivered
             /\ pc' = "idle"
             /\ out' = "error"
             /\ last_step' = "raise_stack"
             /\ IsPrefix(buffer, buffer') ]_vars

C7_Witness ==
    /\ last_step = "raise_stack"
    /\ radio_active
    /\ conn_handle = None
    /\ Len(frames) >= 1
    /\ Len(Flatten(frames)) < Len(prev \o data)
    /\ IsPrefix(prev \o data, buffer)

\* C8: conn_handle changes only in a connect / disconnect event or in the
\* Disconnected path of send_data (which leaves it None); the frame loop, the
\* failure path and the successful end with shutdown_ble leave it as it is.
C8_ConnStateOnlyByEvents ==
    [][ /\ (conn_handle' # conn_handle
              => \/ last_step' \in {"irq_connect", "irq_disconnect"}
                 \/ (last_step' = "send_enter" /\ conn_handle' = None))
        /\ (last_step' \in {"frame", "raise_stack", "raise_link", "finish"}
              => conn_handle' = conn_handle) ]_vars

C8_Witness ==
    /\ last_step = "finish"
    /\ ~radio_active
    /\ conn_handle # None
    /\ Len(frames) >= 1

----------------------------------------------------------------------------
\* Properties of the acquisition scheduler

\* C9: a channel is visited on a tick if and only if the wraparound-safe
\* elapsed time since its last_sample_ms is at least its own configured
\* interval (interval 5000, last 0: not visited at 4999, visited at 5000).
C9_VisitedIffOwnIntervalElapsed ==
    checked.ch >= 0
      => (checked.visited <=> checked.elapsed >= channel_maps(checked.ch).interval)

\* C10: every channel visited on the running tick has its last_sample_ms equal
\* to the tick's time whatever the read did, is visited once on that tick, and
\* was visited no sooner than a full interval after its previous last_sample_ms.
C10_LastSetOnEveryVisit ==
    \A k \in DOMAIN visits :
        /\ last[visits[k].ch] = current_time
        /\ visits[k].elapsed >= channel_maps(visits[k].ch).interval
        /\ \A j \in DOMAIN visits : visits[j].ch = visits[k].ch => j = k

C10_Witness ==
    /\ \E k \in DOMAIN visits :
          visits[k].outcome = "fail" /\ last[visits[k].ch] = current_time
    /\ \E k \in DOMAIN visits :
          visits[k].outcome = "ok" /\ last[visits[k].ch] = current_time
    /\ ticks >= 2

\* C11: every channel visit of the running tick appends exactly one Reading
\* to the live Batch, a failed read being recorded with the sentinel value
\* rather than skipped.
C11_VisitAppendsOneReading ==
    spc \in {"chan", "flushing", "crashed"}
      => \A k \in DOMAIN visits :
            Cardinality({j \in DOMAIN data_buffer :
                            /\ data_buffer[j].timestamp = current_time
                            /\ data_buffer[j].channel = visits[k].ch}) = 1

\* C12: no failure of a sensor driver, of the log sink or of the wireless
\* sink terminates the scheduling loop; record_data goes on to its next tick.
C12_LoopNeverTerminates == spc # "crashed"

\* C13: the flush hands the live Batch to both sinks by value: the step that
\* ends the flush leaves the live Batch empty and changes neither the
\* RetryBuffer nor what the log sink holds.
C13_BatchHandedByValue ==
    [][spc = "flushing" /\ spc' = "tick"
         => /\ data_buffer' = <<>>
            /\ buffer' = buffer
            /\ SdHeld' = SdHeld]_vars

LastOf(seq) == seq[Len(seq)]

IsSuffix(a, b) ==
    Len(a) <= Len(b) /\ SubSeq(b, Len(b) - Len(a) + 1, Len(b)) = a

\* C14: the two sinks are independent at a flush: however log_data went,
\* send_data is entered with the whole batch, and nothing the wireless sink
\* does while the flush runs touches the log file, so a batch whose log_data
\* succeeded is still the tail of the file when the flush ends.
C14_SinksIndependent ==
    [][/\ (spc = "chan" /\ idx = NumChannels /\ FlushDue /\ spc' # "chan")
            => /\ spc' = "flushing"
               /\ last_step' = "send_enter"
               /\ data' = data_buffer
               /\ log_handed' = Append(log_handed, data_buffer)
               /\ Len(log_out') = Len(log_out) + 1
       /\ spc = "flushing"
            => /\ log_file' = log_file
               /\ log_handed' = log_handed
       /\ (spc = "flushing" /\ spc' = "tick" /\ LastOf(log_out) = "ok")
            => IsSuffix(LinesOf(data), log_file'.lines)]_vars

C14_Witness ==
    /\ spc = "flushing"
    /\ pc = "idle"
    /\ out = "error"
    /\ Len(log_out) >= 1
    /\ LastOf(log_out) = "write_fail"
    /\ data = data_buffer
    /\ Len(data) >= 2
    /\ Len(log_file.lines) < 1 + Len(data)

----------------------------------------------------------------------------
\* Multiplexer on its own: select_channel, disable and enable are called
\* with arbitrary arguments

MaxChannelArg == 16

MuxArgs == (0 - 1)..MaxChannelArg

\* if not 0 <= channel <= 15: raise ValueError
InRangeAny(channel) == TRUE
InRange(channel) == 0 <= channel /\ channel <= 15

MuxSelect ==
    /\ spc = "mux_harness"
    /\ \E channel \in MuxArgs :
          /\ mux_arg' = channel
          /\ IF InRange(channel)
             THEN mux' = select_channel(channel) /\ mux_result' = "ok"
             ELSE mux' = mux /\ mux_result' = "ValueError"
    /\ last_step' = "select_channel"
    /\ UNCHANGED <<spc, current_time, last, last_write_time, data_buffer, idx,
                   ticks, visits, checked>>
    /\ UNCHANGED logVars
    /\ UNCHANGED bleVars
    /\ UNCHANGED nextId
    /\ UNCHANGED pinVars
    /\ UNCHANGED gravVars
    /\ UNCHANGED scdVars

\* self.en.value(1)
MuxDisable ==
    /\ spc = "mux_harness"
    /\ mux' = [mux EXCEPT !.en = 1]
    /\ mux_result' = "ok"
    /\ last_step' = "disable"
    /\ UNCHANGED <<spc, current_time, last, last_write_time, data_buffer, idx,
                   ticks, visits, checked, mux_arg>>
    /\ UNCHANGED logVars
    /\ UNCHANGED bleVars
    /\ UNCHANGED nextId
    /\ UNCHANGED pinVars
    /\ UNCHANGED gravVars
    /\ UNCHANGED scdVars

\* self.en.value(0)
MuxEnable ==
    /\ spc = "mux_harness"
    /\ mux' = [mux EXCEPT !.en = 0]
    /\ mux_result' = "ok"
    /\ last_step' = "enable"
    /\ UNCHANGED <<spc, current_time, last, last_write_time, data_buffer, idx,
                   ticks, visits, checked, mux_arg>>
    /\ UNCHANGED logVars
    /\ UNCHANGED bleVars
    /\ UNCHANGED nextId
    /\ UNCHANGED pinVars
    /\ UNCHANGED gravVars
    /\ UNCHANGED scdVars

MuxInit == InitBle /\ InitSchedAt(0, "mux_harness")

MuxNext ==
    \/ MuxSelect
    \/ MuxDisable
    \/ MuxEnable

MuxSpec == MuxInit /\ [][MuxNext]_vars

----------------------------------------------------------------------------
\* Multiplexer.select_channel statement by statement

\* the range test, then self.enable()
SelCall ==
    /\ spc = "pin_harness"
    /\ sel_pc = 0
    /\ \E channel \in MuxArgs :
          /\ mux_arg' = channel
          /\ IF InRange(channel)
             THEN /\ mux' = [mux EXCEPT !.en = 0]
                  /\ sel_pc' = 1
                  /\ pin_writes' = <<>>
                  /\ mux_result' = "running"
             ELSE /\ mux_result' = "ValueError"
                  /\ UNCHANGED <<mux, sel_pc, pin_writes>>
    /\ last_step' = "sel_call"
    /\ UNCHANGED <<spc, current_time, last, last_write_time, data_buffer, idx,
                   ticks, visits, checked>>
    /\ UNCHANGED logVars
    /\ UNCHANGED bleVars
    /\ UNCHANGED nextId
    /\ UNCHANGED gravVars
    /\ UNCHANGED scdVars

\* for pin, val in zip(self.control_pins, bits): pin.value(val)
SelWritePin ==
    /\ spc = "pin_harness"
    /\ sel_pc \in 1..4
    /\ mux' = [mux EXCEPT !.pins[sel_pc] = Bits(mux_arg)[sel_pc]]
    /\ pin_writes' = Append(pin_writes, [pin |-> sel_pc,
                                         val |-> Bits(mux_arg)[sel_pc],
                                         en |-> mux.en])
    /\ sel_pc' = sel_pc + 1
    /\ last_step' = "sel_write"
    /\ UNCHANGED <<spc, current_time, last, last_write_time, data_buffer, idx,
                   ticks, visits, checked, mux_arg, mux_result>>
    /\ UNCHANGED logVars
    /\ UNCHANGED bleVars
    /\ UNCHANGED nextId
    /\ UNCHANGED gravVars
    /\ UNCHANGED scdVars

\* time.sleep_ms(10) and the return
SelReturn ==
    /\ spc = "pin_harness"
    /\ sel_pc = 5
    /\ sel_pc' = 0
    /\ mux_result' = "ok"
    /\ last_step' = "sel_return"
    /\ UNCHANGED <<spc, current_time, last, last_write_time, data_buffer, idx,
                   ticks, visits, checked, mux, mux_arg, pin_writes>>
    /\ UNCHANGED logVars
    /\ UNCHANGED bleVars
    /\ UNCHANGED nextId
    /\ UNCHANGED gravVars
    /\ UNCHANGED scdVars

\* disable() between two select_channel calls
PinDisable ==
    /\ spc = "pin_harness"
    /\ sel_pc = 0
    /\ mux' = [mux EXCEPT !.en = 1]
    /\ mux_result' = "ok"
    /\ last_step' = "disable"
    /\ UNCHANGED <<spc, current_time, last, last_write_time, data_buffer, idx,
                   ticks, visits, checked, mux_arg, sel_pc, pin_writes>>
    /\ UNCHANGED logVars
    /\ UNCHANGED bleVars
    /\ UNCHANGED nextId
    /\ UNCHANGED gravVars
    /\ UNCHANGED scdVars

PinInit == InitBle /\ InitSchedAt(0, "pin_harness")

PinNext ==
    \/ SelCall
    \/ SelWritePin
    \/ SelReturn
    \/ PinDisable

PinSpec == PinInit /\ [][PinNext]_vars

----------------------------------------------------------------------------
\* GravitySensor on its own: construction and get_oxygen_data are called
\* with arbitrary arguments and arbitrary answers of the I2C bus

MaxGravCalls == 3

CollectNums == {0 - 1, 0, 1, 3, MAX_BUFFER_SIZE, MAX_BUFFER_SIZE + 1}

\* the byte read from GET_KEY_REGISTER
KeyBytes == {0, 210}

\* the three bytes read from OXYGEN_DATA_REGISTER
RawResults == {<<20, 9, 0>>, <<19, 5, 5>>}

\* read_reg raises OSError in get_flash (key_fail), in the 3-byte read
\* (data_fail), or not at all (ok)
GravOutcomes == {"ok", "key_fail", "data_fail"}

\* GravitySensor(i2c, addr): __init__ and _try_initialize
GravConstruct ==
    /\ spc = "grav_harness"
    /\ g_calls < MaxGravCalls
    /\ \E o \in {"ok", "probe_fail", "key_fail"} : \E value \in KeyBytes :
          /\ g_key' = IF o = "ok" THEN KeyOf(value) ELSE DEFAULT_KEY
          /\ g_init_success' = InitSuccess(o)
          /\ g_built' = o
          /\ g_i2c' = g_i2c + (IF o = "probe_fail" THEN 1 ELSE 2)
    /\ g_count' = 0
    /\ g_oxygendata' = EmptyHistory
    /\ g_samples' = <<>>
    /\ g_calls' = g_calls + 1
    /\ g_status' = "constructed"
    /\ last_step' = "construct"
    /\ UNCHANGED <<g_cn, g_ret>>
    /\ UNCHANGED schedVars
    /\ UNCHANGED bleVars
    /\ UNCHANGED nextId
    /\ UNCHANGED muxCallVars
    /\ UNCHANGED scdVars

\* the body of get_oxygen_data(collect_num); rounded tells whether the
\* caller rounds the returned value (read_sensor does)
get_oxygen_data(collect_num, rounded) ==
    /\ g_cn' = collect_num
    /\ IF ~ValidCollect(collect_num)
       THEN /\ g_ret' = MinusOne
            /\ g_status' = "sentinel"
            /\ UNCHANGED <<g_key, g_count, g_oxygendata, g_samples, g_i2c>>
       ELSE \E o \in GravOutcomes :
            \E value \in KeyBytes : \E result \in RawResults :
               IF o = "key_fail"
               THEN /\ g_status' = "raise"
                    /\ g_i2c' = g_i2c + 1
                    /\ UNCHANGED <<g_key, g_count, g_oxygendata,
                                   g_samples, g_ret>>
               ELSE LET key == KeyOf(value)
                        shifted == Shifted(g_oxygendata, collect_num)
                        val == ValOf(key, result)
                        history == [shifted EXCEPT ![1] = val]
                        count == Min(g_count + 1, collect_num)
                    IN
                    /\ g_key' = key
                    /\ g_i2c' = g_i2c + 2
                    /\ IF o = "data_fail"
                       THEN /\ g_oxygendata' = shifted
                            /\ g_status' = "raise"
                            /\ UNCHANGED <<g_count, g_samples, g_ret>>
                       ELSE /\ g_oxygendata' = history
                            /\ g_count' = count
                            /\ g_samples' = <<val>> \o g_samples
                            /\ g_ret' = IF rounded
                                        THEN Round2(average(history, count))
                                        ELSE average(history, count)
                            /\ g_status' = "ok"

\* get_oxygen_data(collect_num) called directly
GravCall ==
    /\ spc = "grav_harness"
    /\ g_calls < MaxGravCalls
    /\ \E collect_num \in CollectNums : get_oxygen_data(collect_num, FALSE)
    /\ g_calls' = g_calls + 1
    /\ last_step' = "get_oxygen_data"
    /\ UNCHANGED <<g_init_success, g_built>>
    /\ UNCHANGED schedVars
    /\ UNCHANGED bleVars
    /\ UNCHANGED nextId
    /\ UNCHANGED muxCallVars
    /\ UNCHANGED scdVars

\* read_sensor(collect_num)
GravReadSensor ==
    /\ spc = "grav_harness"
    /\ g_calls < MaxGravCalls
    /\ \E collect_num \in CollectNums :
          IF ~g_init_success
          THEN /\ g_ret' = MinusOne
               /\ g_status' = "sentinel"
               /\ g_cn' = collect_num
               /\ UNCHANGED <<g_key, g_count, g_oxygendata, g_samples, g_i2c>>
          ELSE get_oxygen_data(collect_num, TRUE)
    /\ g_calls' = g_calls + 1
    /\ last_step' = "read_sensor"
    /\ UNCHANGED <<g_init_success, g_built>>
    /\ UNCHANGED schedVars
    /\ UNCHANGED bleVars
    /\ UNCHANGED nextId
    /\ UNCHANGED muxCallVars
    /\ UNCHANGED scdVars

GravInit == InitBle /\ InitSchedAt(0, "grav_harness")

GravNext ==
    \/ GravConstruct
    \/ GravCall
    \/ GravReadSensor

GravSpec == GravInit /\ [][GravNext]_vars

----------------------------------------------------------------------------
\* SCD40Sensor on its own: read_sensor is called and the bus answers with
\* arbitrary frames, sound or corrupted

\* words a frame is built from
ScdWords == {<<190, 239>>, <<1, 244>>, <<102, 103>>}

\* the checksum byte that follows a word: the right one, or a corrupted one
ChecksumsFor(w) == {crc8(w), Xor(crc8(w), 128, 8)}

\* a word followed by its checksum byte
ScdSlots == UNION {{w \o <<c>> : c \in ChecksumsFor(w)} : w \in ScdWords}

ScdFrames == {a \o b \o c : a \in ScdSlots, b \in ScdSlots, c \in ScdSlots}

\* i2c.writeto raises, i2c.readfrom raises, or 9 bytes arrive
ScdBus == {"ok", "write_fail", "read_fail"}

\* read_sensor()
ScdRead ==
    /\ spc = "scd_harness"
    /\ \E bus \in ScdBus : \E frame \in ScdFrames :
          /\ scd_status' = bus
          /\ scd_frame' = IF bus = "ok" THEN frame ELSE <<>>
          /\ scd_ret' = IF bus = "ok" THEN Decoded(frame) ELSE NoneTriple
    /\ last_step' = "scd_read"
    /\ UNCHANGED <<crc_pc, crc_word, crc_bit, crc_of_word, crc_of_flipped>>
    /\ UNCHANGED schedVars
    /\ UNCHANGED bleVars
    /\ UNCHANGED nextId
    /\ UNCHANGED muxCallVars
    /\ UNCHANGED gravVars

ScdInit == InitBle /\ InitSchedAt(0, "scd_harness")

ScdNext == ScdRead

ScdSpec == ScdInit /\ [][ScdNext]_vars

----------------------------------------------------------------------------
\* crc8 on its own: it is applied to a 2-byte word and to the same word with
\* one bit flipped

Bytes == 0..255

WordBits == 0..15

\* the word with bit b flipped, bit 0 being the lowest bit of the second byte
Flip(w, b) ==
    IF b < 8 THEN <<w[1], Xor(w[2], 2 ^ b, 8)>>
    ELSE <<Xor(w[1], 2 ^ (b - 8), 8), w[2]>>

CrcPick ==
    /\ spc = "crc_harness"
    /\ crc_pc = "none"
    /\ \E hi \in Bytes : \E lo \in Bytes :
          /\ crc_word' = <<hi, lo>>
          /\ crc_of_word' = crc8(<<hi, lo>>)
    /\ crc_pc' = "picked"
    /\ last_step' = "crc_pick"
    /\ UNCHANGED <<scd_frame, scd_status, scd_ret, crc_bit, crc_of_flipped>>
    /\ UNCHANGED schedVars
    /\ UNCHANGED bleVars
    /\ UNCHANGED nextId
    /\ UNCHANGED muxCallVars
    /\ UNCHANGED gravVars

CrcFlip ==
    /\ spc = "crc_harness"
    /\ crc_pc = "picked"
    /\ \E b \in WordBits :
          /\ crc_bit' = b
          /\ crc_of_flipped' = crc8(Flip(crc_word, b))
    /\ crc_pc' = "flipped"
    /\ last_step' = "crc_flip"
    /\ UNCHANGED <<scd_frame, scd_status, scd_ret, crc_word, crc_of_word>>
    /\ UNCHANGED schedVars
    /\ UNCHANGED bleVars
    /\ UNCHANGED nextId
    /\ UNCHANGED muxCallVars
    /\ UNCHANGED gravVars

CrcInit == InitBle /\ InitSchedAt(0, "crc_harness")

CrcNext ==
    \/ CrcPick
    \/ CrcFlip

CrcSpec == CrcInit /\ [][CrcNext]_vars

----------------------------------------------------------------------------
\* Properties of the log sink

\* C15: after log_data calls that all succeeded on a file that did not exist
\* before, the file is one header line followed by one line per Reading of
\* every batch, in append order; the same batch appended twice gives the
\* header and 2 x len(batch) data lines.
C15_HeaderThenOneLinePerReading ==
    (log_out # <<>> /\ \A k \in DOMAIN log_out : log_out[k] = "ok")
      => /\ log_file.exists
         /\ log_file.lines = <<HEADER>> \o LinesOf(Flatten(log_handed))
         /\ (Len(log_handed) = 2 /\ log_handed[1] = log_handed[2])
              => Len(log_file.lines) = 1 + 2 * Len(log_handed[1])

C15_Witness ==
    /\ log_out = <<"ok", "ok">>
    /\ log_handed[1] = log_handed[2]
    /\ Len(log_handed[1]) = 2
    /\ Len(log_file.lines) = 5

\* C16: every Reading appended to the live Batch is handed to log_data in
\* exactly one flush: no Reading is handed twice, and none is left behind in
\* a live Batch that will never be flushed.
C16_HandedToLogExactlyOnce ==
    LET handed == Flatten(log_handed) IN
    /\ \A j, k \in DOMAIN handed : handed[j] = handed[k] => j = k
    /\ \A j \in DOMAIN handed : \A k \in DOMAIN data_buffer :
          spc # "flushing" => handed[j] # data_buffer[k]
    /\ spc = "crashed" => data_buffer = <<>>

\* where a Reading is
InLive(r) == \E k \in DOMAIN data_buffer : data_buffer[k] = r
InRetry(r) == \E k \in DOMAIN buffer : buffer[k] = r
InLog(r) == \E k \in DOMAIN log_file.lines : log_file.lines[k] = LineOf(r)

KnownReadings == Range(data_buffer) \cup Range(buffer) \cup Range(Flatten(log_handed))

\* C17 as stated: between scheduler steps every Reading is in at most one of
\* the live Batch, the RetryBuffer and the log file.
C17_AtMostOnePlace ==
    spc # "flushing"
      => \A r \in KnownReadings :
            /\ ~(InLive(r) /\ InRetry(r))
            /\ ~(InLive(r) /\ InLog(r))
            /\ ~(InRetry(r) /\ InLog(r))

\* C17 amended: between scheduler steps no Reading of the live Batch is in
\* the RetryBuffer or in the log file (a flushed Reading may be in both the
\* log file and the RetryBuffer).
C17_LiveBatchDisjointFromSinks ==
    spc # "flushing"
      => \A r \in KnownReadings :
            /\ ~(InLive(r) /\ InRetry(r))
            /\ ~(InLive(r) /\ InLog(r))

C17_Witness ==
    /\ spc = "tick"
    /\ last_step = "flush_return"
    /\ buffer # <<>>
    /\ \A k \in DOMAIN buffer : InLog(buffer[k]) /\ ~InLive(buffer[k])
    /\ Len(log_file.lines) = 1 + Len(buffer)

----------------------------------------------------------------------------
\* Properties of the multiplexer

\* C18: select_channel with a channel outside 0..15 fails with ValueError
\* and leaves the enable pin and the four control pins as they were.
C18_OutOfRangeSelectChangesNothing ==
    [][(last_step' = "select_channel" /\ (mux_arg' < 0 \/ mux_arg' > 15))
          => /\ mux_result' = "ValueError"
             /\ mux'.en = mux.en
             /\ mux'.pins = mux.pins]_vars

C18_Witness ==
    /\ last_step = "select_channel"
    /\ mux_arg = 16
    /\ mux_result = "ValueError"
    /\ mux.en = 1
    /\ mux.pins = <<0, 1, 0, 1>>

----------------------------------------------------------------------------
\* Properties of the GravitySensor

\* C19: a successful get_oxygen_data with collect_num in 1..101 returns the
\* arithmetic mean of the latest min(count_so_far, collect_num) calibrated
\* samples, count_so_far being the number of samples taken so far, whatever
\* the collect_num values of the earlier calls were.
C19_MeanOfMostRecentSamples ==
    (last_step = "get_oxygen_data" /\ g_status = "ok")
      => LET n == Min(Len(g_samples), g_cn)
         IN SameValue(g_ret, average(g_samples, n))

\* C20: get_oxygen_data with collect_num <= 0 or collect_num > 101 returns
\* the failure value at once: no I2C transaction is issued and the key, the
\* history window and the sample count stay as they were.
C20_BadCollectNumTouchesNothing ==
    [][(g_calls' = g_calls + 1 /\ last_step' = "get_oxygen_data"
          /\ (g_cn' <= 0 \/ g_cn' > 101))
          => /\ g_status' = "sentinel"
             /\ g_ret' = MinusOne
             /\ g_i2c' = g_i2c
             /\ g_key' = g_key
             /\ g_oxygendata' = g_oxygendata
             /\ g_count' = g_count]_vars

C20_Witness ==
    /\ last_step = "get_oxygen_data"
    /\ g_status = "sentinel"
    /\ g_cn = 102
    /\ g_count = 2
    /\ g_i2c = 4
    /\ g_key # DEFAULT_KEY
    /\ g_oxygendata[1] # g_oxygendata[2]

\* C21: once the probe made at construction has failed, the driver is
\* non-functional and every read_sensor call, whatever its collect_num,
\* returns the failure value without raising and without I2C traffic.
C21_FailedProbeGivesSentinel ==
    /\ [](g_built = "probe_fail" => ~g_init_success)
    /\ [][(g_built = "probe_fail" /\ last_step' = "read_sensor"
             /\ g_calls' = g_calls + 1)
            => /\ g_status' = "sentinel"
               /\ g_ret' = MinusOne
               /\ g_i2c' = g_i2c
               /\ ~g_init_success']_vars

C21_Witness ==
    /\ g_built = "probe_fail"
    /\ last_step = "read_sensor"
    /\ g_status = "sentinel"
    /\ g_cn = 3
    /\ g_calls = 3
    /\ g_i2c = 1

\* C28: a get_oxygen_data call that fails with an I2C error leaves the
\* history window and the sample count exactly as they were before the call.
C28_FailedReadKeepsHistory ==
    [][(g_calls' = g_calls + 1 /\ g_status' = "raise")
          => /\ g_oxygendata' = g_oxygendata
             /\ g_count' = g_count]_vars

----------------------------------------------------------------------------
\* Properties of the SCD40Sensor

\* C22: read_sensor never returns partly valid data: if the crc8 of any of
\* the three words of the frame differs from the checksum byte received
\* with it, all three result fields are None; only when the three checksums
\* match are the decoded CO2, temperature and humidity returned.
C22_AllOrNothing ==
    scd_status = "ok"
      => LET Sound(k) == crc8(SubSeq(scd_frame, k, k + 1)) = scd_frame[k + 2]
             Word(k) == scd_frame[k] * 256 + scd_frame[k + 1]
         IN IF Sound(1) /\ Sound(4) /\ Sound(7)
            THEN scd_ret = [co2 |-> Some(Word(1)),
                            temp |-> Some(TempOf(Word(4))),
                            humidity |-> Some(HumidityOf(Word(7)))]
            ELSE scd_ret = NoneTriple

C22_Witness ==
    /\ scd_status = "ok"
    /\ scd_ret = NoneTriple
    /\ crc8(SubSeq(scd_frame, 1, 2)) = scd_frame[3]
    /\ crc8(SubSeq(scd_frame, 4, 5)) = scd_frame[6]
    /\ crc8(SubSeq(scd_frame, 7, 8)) # scd_frame[9]

\* C23: for every 2-byte word, crc8 of the word differs from crc8 of the
\* word with any one bit flipped.
C23_SingleBitFlipChangesCrc ==
    crc_pc = "flipped" => crc_of_word # crc_of_flipped

C23_Witness ==
    /\ crc_pc = "flipped"
    /\ crc_word = <<190, 239>>
    /\ crc_of_word = 146
    /\ crc_bit = 15
    /\ crc_of_flipped # 146

----------------------------------------------------------------------------
\* Properties of the scheduler across a rollover of the tick counter

\* the time that passed between two readings of the tick counter, the
\* counter having rolled over at most once in between
TrueElapsed(now, before) ==
    IF now >= before THEN now - before ELSE now + TICKS_PERIOD - before

\* C24: the due check and the flush check are safe across a rollover: a
\* channel whose last_sample_ms was recorded before the counter rolled over
\* is visited exactly when its own interval has elapsed, and a flush happens
\* exactly when the flush period has elapsed since the last one.
C24_RolloverSafe ==
    /\ (checked.ch >= 0 /\ checked.now < checked.before)
         => (checked.visited
               <=> TrueElapsed(checked.now, checked.before)
                      >= channel_maps(checked.ch).interval)
    /\ spc = "flushing"
         => TrueElapsed(current_time, last_write_time) >= FLUSH_PERIOD
    /\ (spc = "tick" /\ last_step = "sleep")
         => TrueElapsed(current_time, last_write_time) < FLUSH_PERIOD

----------------------------------------------------------------------------
\* Properties of the multiplexer inside the scheduling loop

\* C26: in the scheduling loop the multiplexer is disabled whenever no
\* channel is being read: between channel visits, between ticks and during
\* a flush the enable pin is at its inactive level.
C26_DisabledBetweenVisits ==
    spc \in {"tick", "chan", "flushing"} => mux.en = 1

\* C29: a Reading appended for channel c was read with the multiplexer
\* enabled and its control pins selecting c, by the driver configured for c;
\* the due channels of a tick are visited one at a time, in order.
C29_ReadingFromSelectedChannel ==
    /\ \A k \in DOMAIN data_buffer :
          /\ data_buffer[k].channel \in Channels
          /\ data_buffer[k].sensor_type
                = sensor_label(channel_maps(data_buffer[k].channel).sensor_type)
    /\ (spc = "chan" /\ last_step = "channel" /\ checked.visited)
         => /\ mux.en = 0
            /\ mux.pins = Bits(checked.ch)
            /\ checked.ch = idx - 1
            /\ data_buffer # <<>>
            /\ LastOf(data_buffer)
                 = Reading(current_time, checked.ch, LastOf(visits).outcome)
    /\ \A j, k \in DOMAIN visits : j < k => visits[j].ch < visits[k].ch

C29_Witness ==
    /\ spc = "chan"
    /\ last_step = "channel"
    /\ checked.visited
    /\ checked.ch = 1
    /\ mux = [en |-> 0, pins |-> <<0, 0, 0, 1>>]
    /\ Len(data_buffer) >= 2
    /\ LastOf(data_buffer).sensor_type = "CO2"

----------------------------------------------------------------------------
\* Properties of the radio

\* C27: send_data never attempts to write or notify a frame while the radio
\* is disabled, and a sink whose RetryBuffer is not empty has its radio
\* enabled whenever no send_data call is running.
C27_NoSendWithRadioOff ==
    /\ (pc = "loop" /\ FrameLeft(buffer, i)) => radio_active
    /\ (pc = "idle" /\ buffer # <<>>) => radio_active

----------------------------------------------------------------------------
\* Properties of select_channel

\* C25: select_channel(c) for c in 0..15 writes the four control pins with
\* the binary encoding of c while the enable pin is inactive, and returns
\* with the enable pin active and the pins encoding exactly c, distinct
\* channels giving distinct patterns.
C25_AddressWrittenWhileDisabled ==
    /\ \A k \in DOMAIN pin_writes : pin_writes[k].en = 1
    /\ (mux_result = "running" \/ last_step = "sel_return")
         => \A k \in DOMAIN pin_writes :
               pin_writes[k].val = Bits(mux_arg)[pin_writes[k].pin]
    /\ (last_step = "sel_return" /\ mux_result = "ok")
         => mux = select_channel(mux_arg)
    /\ \A a, b \in 0..15 : a # b => Bits(a) # Bits(b)

====
